---- MODULE Spec2Model ----
(***************************************************************************)
(* Model of Streamlit/mcc_dashboard.py: the multi-country Google Ads       *)
(* dashboard script.  One script run is the chain                          *)
(*   page chrome + load_dotenv -> GOOGLE_ADS_CONFIG -> selectbox ->        *)
(*   get_google_ads_client -> test_google_ads_connection ->                *)
(*   get_campaign_performance -> totals / table.                           *)
(* A Streamlit process executes the script once per user interaction; the  *)
(* only state that survives a run is os.environ and the cache_resource     *)
(* entry of get_google_ads_client.                                         *)
(***************************************************************************)
EXTENDS Integers, Sequences, FiniteSets, TLC

(* ---------------- bounds ---------------- *)
MaxRuns == 2
MaxRows == 2

(* ---------------- program constants ---------------- *)
MicrosPerUnit == 1000000

\* python None for a metric value / for os.environ.get of an unset key
None == -1
Absent == "<None>"

NoClient == 0

COUNTRY_LABELS ==
  << "NL", "BE", "DE", "DK", "ES", "FI", "FR (Ravann)", "FR (Tapis)",
     "IT", "NO", "PL", "SE", "EU", "UK" >>

COUNTRY_ACCOUNTS ==
  ("NL" :> "5756290882") @@ ("BE" :> "5735473691") @@ ("DE" :> "1946606314") @@
  ("DK" :> "8921136631") @@ ("ES" :> "4748902087") @@ ("FI" :> "8470338623") @@
  ("FR (Ravann)" :> "2846016798") @@ ("FR (Tapis)" :> "7539242704") @@
  ("IT" :> "8472162607") @@ ("NO" :> "3581636329") @@ ("PL" :> "8467590750") @@
  ("SE" :> "8463558543") @@ ("EU" :> "6542318847") @@ ("UK" :> "8163355443")

\* the sidebar choices the model draws the selection from
Selections == { "NL", "DE", "FR (Ravann)" }

\* the five required variables, in the order GOOGLE_ADS_CONFIG reads them
ENV_KEYS ==
  << "DEVELOPER_TOKEN", "CLIENT_ID", "CLIENT_SECRET", "REFRESH_TOKEN",
     "MCC_CUSTOMER_ID" >>

\* the GOOGLE_ADS_CONFIG field each variable is stored under
CONFIG_FIELDS ==
  << "developer_token", "client_id", "client_secret", "refresh_token",
     "login_customer_id" >>

KeySet == { ENV_KEYS[i] : i \in 1..Len(ENV_KEYS) }

(* ---------------- inputs of the environment ---------------- *)
\* one non-empty value per variable, all different
EnvValue(key) ==
  CASE key = "DEVELOPER_TOKEN" -> "dev-token"
    [] key = "CLIENT_ID"       -> "client-id"
    [] key = "CLIENT_SECRET"   -> "client-secret"
    [] key = "REFRESH_TOKEN"   -> "refresh-token"
    [] OTHER                   -> "1234567890"

\* what a source (the process environment, the .env file) holds for a key:
\* nothing, the empty string, or a value
Pick(key, c) == IF c = 0 THEN Absent ELSE IF c = 1 THEN "" ELSE EnvValue(key)

Outcomes == { "ok", "GoogleAdsException", "Exception" }
Exceptions == { "GoogleAdsException", "Exception" }

\* rows the GoogleAdsService may stream for the campaign query
ApiRow(id, name, imp, clk, cost) ==
  [ campaign_id |-> id, campaign_name |-> name, impressions |-> imp,
    clicks |-> clk, cost_micros |-> cost ]

CampaignRows ==
  { ApiRow(1, "Brand", 100, 10, 5000000),
    ApiRow(2, "Generic", 50, 5, 1000000),
    ApiRow(3, "Shopping", None, 5, 2000000),
    ApiRow(4, "Display", 7, None, 1234567),
    ApiRow(5, "Video", 0, 1, None) }

\* rows the GoogleAdsService may stream for the customer_client query
ClientRow(cid, name) == [ client_customer |-> cid, descriptive_name |-> name ]

AccountRows ==
  { ClientRow("customers/5756290882", "NL"),
    ClientRow("customers/5735473691", "BE"),
    ClientRow("customers/1946606314", "") }

SeqsUpTo(S, n) == UNION { [1..k -> S] : k \in 0..n }

\* a message shown on the page
Msg(level, by, detail) == [ level |-> level, by |-> by, detail |-> detail ]

(* ---------------- state ---------------- *)
VARIABLES
  environ,            \* os.environ restricted to the five variables
  cache,              \* st.cache_resource entry of get_google_ads_client
  runs,               \* script runs started in this process
  clientCalls,        \* calls of get_google_ads_client in this process
  constructed,        \* clients load_from_dict has returned in this process
  verified,           \* some probe of this process has returned True
  pc,                 \* position of the current script run
  msgs,               \* messages surfaced by the current run (or harness call)
  GOOGLE_ADS_CONFIG,  \* module global of the current run
  country,            \* sidebar selection of the current run
  customer_id,
  client,             \* handle returned to the current run
  loaded,             \* the current run has called GoogleAdsClient.load_from_dict
  probeResult,        \* "none" | "success" | "empty" | "exception"
  response,           \* rows of the campaign search response
  fetchFailure,       \* "none" | "service" | "search" | "iterate"
  fetchStatus,        \* "none" | "returned" | "raised"
  appended,           \* rows appended to the list when the operation ended
  rows,               \* value returned by get_campaign_performance
  view,               \* "none" | "no_data" | "totals_table"
  total_impressions,
  total_clicks,
  total_cost,         \* << whole units, millionths >> of sum / 1_000_000
  table_data,
  accResponse,        \* rows of the customer_client search response
  listFailure,
  listStatus,
  accAppended,
  accounts            \* value returned by list_accounts_under_mcc

procVars == << environ, cache, runs, clientCalls, constructed, verified >>
runVars == << pc, msgs, GOOGLE_ADS_CONFIG, country, customer_id, client,
              loaded, probeResult >>
fetchVars == << response, fetchFailure, fetchStatus, appended, rows >>
renderVars == << view, total_impressions, total_clicks, total_cost, table_data >>
listVars == << accResponse, listFailure, listStatus, accAppended, accounts >>

vars == << procVars, runVars, fetchVars, renderVars, listVars >>

NoConfig == [ f \in {} |-> "" ]
NoCost == << 0, 0 >>


(* ================= 4.1 credential loader (lines 45-60) ================= *)

\* `if not value`: None and the empty string are both falsy
Falsy(value) == value = Absent \/ value = ""

\* get_env_var(key) reading os.environ = e
get_env_var_none_only(e, key) ==
  LET value == e[key] IN
  IF value = Absent
    THEN [ stopped |-> TRUE, value |-> value,
           out |-> << Msg("error", "get_env_var", key) >> ]
    ELSE [ stopped |-> FALSE, value |-> value, out |-> << >> ]

get_env_var(e, key) ==
  LET value == e[key] IN
  IF Falsy(value)
    THEN [ stopped |-> TRUE, value |-> value,
           out |-> << Msg("error", "get_env_var", key) >> ]
    ELSE [ stopped |-> FALSE, value |-> value, out |-> << >> ]

\* (use_proto_plus: True is kept as the string "True")
\* the dict display of GOOGLE_ADS_CONFIG evaluates its five get_env_var calls
\* in order; the first st.stop() abandons the whole assignment
RECURSIVE BuildConfig(_, _, _)
BuildConfig(e, i, acc) ==
  IF i > Len(ENV_KEYS)
    THEN [ stopped |-> FALSE, out |-> << >>,
           config |-> acc @@ ("use_proto_plus" :> "True") ]
    ELSE LET r == get_env_var(e, ENV_KEYS[i]) IN
         IF r.stopped
           THEN [ stopped |-> TRUE, out |-> r.out, config |-> NoConfig ]
           ELSE BuildConfig(e, i + 1, acc @@ (CONFIG_FIELDS[i] :> r.value))

(* ================= 4.2 connectivity probe (lines 71-83) ================= *)

\* io.service: outcome of client.get_service("CustomerService")
\* io.call:    outcome of list_accessible_customers()
\* io.names:   accessible_customers.resource_names
test_google_ads_connection_fatal(io) ==
  IF io.service # "ok" \/ io.call # "ok"
    THEN [ stopped |-> TRUE, ret |-> FALSE, result |-> "exception",
           out |-> << Msg("error", "test_google_ads_connection", "fatal") >> ]
  ELSE IF io.names # << >>
    THEN [ stopped |-> FALSE, ret |-> TRUE, result |-> "success",
           out |-> << Msg("success", "test_google_ads_connection", "ok") >> ]
    ELSE [ stopped |-> TRUE, ret |-> FALSE, result |-> "empty",
           out |-> << Msg("warning", "test_google_ads_connection", "no customers") >> ]

test_google_ads_connection(io) ==
  IF io.service # "ok"
    THEN [ stopped |-> FALSE, ret |-> FALSE, result |-> "exception",
           out |-> << Msg("error", "test_google_ads_connection", io.service) >> ]
  ELSE IF io.call # "ok"
    THEN [ stopped |-> FALSE, ret |-> FALSE, result |-> "exception",
           out |-> << Msg("error", "test_google_ads_connection", io.call) >> ]
  ELSE IF io.names # << >>
    THEN [ stopped |-> FALSE, ret |-> TRUE, result |-> "success",
           out |-> << Msg("success", "test_google_ads_connection", "ok") >> ]
    ELSE [ stopped |-> FALSE, ret |-> FALSE, result |-> "empty",
           out |-> << Msg("warning", "test_google_ads_connection", "no customers") >> ]

\* a failing step leaves the later ones unused
ProbeInputs ==
  { [ service |-> sv, call |-> "ok", names |-> << >> ] : sv \in Exceptions }
  \cup
  { [ service |-> "ok", call |-> c, names |-> << >> ] : c \in Exceptions }
  \cup
  { [ service |-> "ok", call |-> "ok", names |-> n ] :
      n \in { << >>, << "customers/1234567890" >> } }

(* ================= 4.2 memoized client (lines 62-68) ================= *)

\* entry:   the st.cache_resource entry (NoClient: a miss)
\* outcome: outcome of GoogleAdsClient.load_from_dict(GOOGLE_ADS_CONFIG)
\* fresh:   the handle load_from_dict would return
\* A call that leaves through st.stop() stores nothing in the cache.
get_google_ads_client_uncached(entry, outcome, fresh) ==
  IF outcome = "ok"
    THEN [ stopped |-> FALSE, value |-> fresh, entry |-> fresh,
           loaded |-> TRUE, built |-> TRUE, out |-> << >> ]
    ELSE [ stopped |-> TRUE, value |-> NoClient, entry |-> entry,
           loaded |-> TRUE, built |-> FALSE,
           out |-> << Msg("error", "get_google_ads_client", outcome) >> ]

get_google_ads_client_no_stop(entry, outcome, fresh) ==
  IF entry # NoClient
    THEN [ stopped |-> FALSE, value |-> entry, entry |-> entry,
           loaded |-> FALSE, built |-> FALSE, out |-> << >> ]
  ELSE IF outcome = "ok"
    THEN [ stopped |-> FALSE, value |-> fresh, entry |-> fresh,
           loaded |-> TRUE, built |-> TRUE, out |-> << >> ]
    ELSE [ stopped |-> FALSE, value |-> NoClient, entry |-> NoClient,
           loaded |-> TRUE, built |-> FALSE,
           out |-> << Msg("error", "get_google_ads_client", outcome) >> ]

get_google_ads_client(entry, outcome, fresh) ==
  IF entry # NoClient
    THEN [ stopped |-> FALSE, value |-> entry, entry |-> entry,
           loaded |-> FALSE, built |-> FALSE, out |-> << >> ]
  ELSE IF outcome = "ok"
    THEN [ stopped |-> FALSE, value |-> fresh, entry |-> fresh,
           loaded |-> TRUE, built |-> TRUE, out |-> << >> ]
    ELSE [ stopped |-> TRUE, value |-> NoClient, entry |-> NoClient,
           loaded |-> TRUE, built |-> FALSE,
           out |-> << Msg("error", "get_google_ads_client", outcome) >> ]

(* ================= 4.2 read operations (lines 86-139) ================= *)

\* the dict get_campaign_performance appends for one response row
PerformanceDict(row) ==
  ("campaign.id" :> row.campaign_id) @@
  ("campaign.name" :> row.campaign_name) @@
  ("metrics.impressions" :> row.impressions) @@
  ("metrics.clicks" :> row.clicks) @@
  ("metrics.cost_micros" :> row.cost_micros)

\* the dict list_accounts_under_mcc appends for one response row
AccountDict(row) ==
  ("id" :> row.client_customer) @@ ("name" :> row.descriptive_name)

\* `for row in response: acc.append(...)`: the exception io.iterExc is raised
\* when the io.failAt-th item is requested (0: the iteration completes)
RECURSIVE IteratePerformance(_, _, _, _)
IteratePerformance(resp, failAt, i, acc) ==
  IF failAt = i THEN [ raised |-> TRUE, acc |-> acc ]
  ELSE IF i > Len(resp) THEN [ raised |-> FALSE, acc |-> acc ]
  ELSE IteratePerformance(resp, failAt, i + 1, Append(acc, PerformanceDict(resp[i])))

RECURSIVE IterateAccounts(_, _, _, _)
IterateAccounts(resp, failAt, i, acc) ==
  IF failAt = i THEN [ raised |-> TRUE, acc |-> acc ]
  ELSE IF i > Len(resp) THEN [ raised |-> FALSE, acc |-> acc ]
  ELSE IterateAccounts(resp, failAt, i + 1, Append(acc, AccountDict(resp[i])))

\* which except clause prints
ReadError(by, exc) ==
  IF exc = "GoogleAdsException"
    THEN Msg("error", by, "Google Ads API error")
    ELSE Msg("error", by, "Unexpected error")

\* io.service: outcome of client.get_service("GoogleAdsService") (line 121,
\*             before the try)
\* io.search:  outcome of ga_service.search(...)
\* io.response, io.failAt, io.iterExc: the streamed rows and where they break
get_campaign_performance_partial(io) ==
  IF io.service # "ok"
    THEN [ status |-> "raised", failure |-> "service", result |-> << >>,
           appended |-> 0, out |-> << >> ]
  ELSE IF io.search # "ok"
    THEN [ status |-> "returned", failure |-> "search", result |-> << >>,
           appended |-> 0, out |-> << ReadError("get_campaign_performance", io.search) >> ]
  ELSE LET it == IteratePerformance(io.response, io.failAt, 1, << >>) IN
       IF it.raised
         THEN [ status |-> "returned", failure |-> "iterate", result |-> it.acc,
                appended |-> Len(it.acc), out |-> << ReadError("get_campaign_performance", io.iterExc) >> ]
         ELSE [ status |-> "returned", failure |-> "none", result |-> it.acc,
                appended |-> Len(it.acc), out |-> << >> ]

get_campaign_performance(io) ==
  IF io.service # "ok"
    THEN [ status |-> "raised", failure |-> "service", result |-> << >>,
           appended |-> 0, out |-> << >> ]
  ELSE IF io.search # "ok"
    THEN [ status |-> "returned", failure |-> "search", result |-> << >>,
           appended |-> 0, out |-> << ReadError("get_campaign_performance", io.search) >> ]
  ELSE LET it == IteratePerformance(io.response, io.failAt, 1, << >>) IN
       IF it.raised
         THEN [ status |-> "returned", failure |-> "iterate", result |-> << >>,
                appended |-> Len(it.acc), out |-> << ReadError("get_campaign_performance", io.iterExc) >> ]
         ELSE [ status |-> "returned", failure |-> "none", result |-> it.acc,
                appended |-> Len(it.acc), out |-> << >> ]

list_accounts_under_mcc(io) ==
  IF io.service # "ok"
    THEN [ status |-> "raised", failure |-> "service", result |-> << >>,
           appended |-> 0, out |-> << >> ]
  ELSE IF io.search # "ok"
    THEN [ status |-> "returned", failure |-> "search", result |-> << >>,
           appended |-> 0, out |-> << ReadError("list_accounts_under_mcc", io.search) >> ]
  ELSE LET it == IterateAccounts(io.response, io.failAt, 1, << >>) IN
       IF it.raised
         THEN [ status |-> "returned", failure |-> "iterate", result |-> << >>,
                appended |-> Len(it.acc), out |-> << ReadError("list_accounts_under_mcc", io.iterExc) >> ]
         ELSE [ status |-> "returned", failure |-> "none", result |-> it.acc,
                appended |-> Len(it.acc), out |-> << >> ]

\* the inputs of one read: a failing step leaves the later ones unused
ReadInputs(RowSet) ==
  { [ service |-> sv, search |-> "ok", response |-> << >>, failAt |-> 0,
      iterExc |-> "Exception" ] : sv \in Exceptions }
  \cup
  { [ service |-> "ok", search |-> se, response |-> << >>, failAt |-> 0,
      iterExc |-> "Exception" ] : se \in Exceptions }
  \cup
  UNION { { [ service |-> "ok", search |-> "ok", response |-> resp, failAt |-> 0,
              iterExc |-> "Exception" ] }
          \cup
          { [ service |-> "ok", search |-> "ok", response |-> resp, failAt |-> k,
              iterExc |-> x ] : k \in 1..(Len(resp) + 1), x \in Exceptions }
          : resp \in SeqsUpTo(RowSet, MaxRows) }

(* ================= 4.3 totals and table (lines 152-173) ================= *)

\* row.get(key, default)
Get(row, key, default) == IF key \in DOMAIN row THEN row[key] ELSE default

\* `x or 0`: None and 0 are the falsy metric values
OrZero(x) == IF x = None \/ x = 0 THEN 0 ELSE x

RECURSIVE SumColumn(_, _)
SumColumn(rs, key) ==
  IF rs = << >> THEN 0
  ELSE OrZero(Get(Head(rs), key, 0)) + SumColumn(Tail(rs), key)

DivMicros_thousand(x) == << x \div 1000, x % 1000 >>

\* x / 1_000_000 as the exact decimal << whole units, millionths >>
DivMicros(x) == << x \div MicrosPerUnit, x % MicrosPerUnit >>

TotalCost(rs) == DivMicros(SumColumn(rs, "metrics.cost_micros"))

\* one table line; the "Cost" column is the source's "Cost (EUR sign)" column.
\* The three metric cards only format the totals and are not kept.
TableRow(row) ==
  ("Campaign ID" :> Get(row, "campaign.id", None)) @@
  ("Campaign Name" :> Get(row, "campaign.name", Absent)) @@
  ("Impressions" :> Get(row, "metrics.impressions", 0)) @@
  ("Clicks" :> Get(row, "metrics.clicks", 0)) @@
  ("Cost" :> DivMicros(OrZero(Get(row, "metrics.cost_micros", 0))))

TableData(rs) == [ i \in 1..Len(rs) |-> TableRow(rs[i]) ]

\* `if not rows`
ChooseView_inverted(rs) == IF rs = << >> THEN "totals_table" ELSE "no_data"

ChooseView(rs) == IF rs = << >> THEN "no_data" ELSE "totals_table"


(* ================= the script run ================= *)

Environments == { [ k \in KeySet |-> Pick(k, p[k]) ] : p \in [ KeySet -> 0..2 ] }

Init ==
  /\ environ \in Environments
  /\ cache = NoClient
  /\ runs = 0
  /\ clientCalls = 0
  /\ constructed = 0
  /\ verified = FALSE
  /\ pc = "idle"
  /\ msgs = << >>
  /\ GOOGLE_ADS_CONFIG = NoConfig
  /\ country = ""
  /\ customer_id = ""
  /\ client = NoClient
  /\ loaded = FALSE
  /\ probeResult = "none"
  /\ response = << >>
  /\ fetchFailure = "none"
  /\ fetchStatus = "none"
  /\ appended = 0
  /\ rows = << >>
  /\ view = "none"
  /\ total_impressions = 0
  /\ total_clicks = 0
  /\ total_cost = NoCost
  /\ table_data = << >>
  /\ accResponse = << >>
  /\ listFailure = "none"
  /\ listStatus = "none"
  /\ accAppended = 0
  /\ accounts = << >>

\* lines 13-21: the two advisory probes of the working directory
Chrome(dotenvExists, yamlDetected) ==
  << IF dotenvExists
       THEN Msg("success", "page", "Secure Mode: ON")
       ELSE Msg("warning", "page", "Secure Mode: OFF") >>
  \o (IF yamlDetected
        THEN << Msg("warning", "page", "YAML credential file(s) detected") >>
        ELSE << >>)

\* line 42: load_dotenv() sets the variables of the file that os.environ
\* does not hold yet (override is off)
load_dotenv(e, file) ==
  [ k \in KeySet |-> IF e[k] = Absent /\ k \in DOMAIN file THEN file[k] ELSE e[k] ]

UnsetKeys(e) == { k \in KeySet : e[k] = Absent }

\* a user interaction (or the first page load) starts the script from the top
StartRun ==
  /\ pc \in { "idle", "done", "halted", "crashed" }
  /\ runs < MaxRuns
  /\ \E dotenvExists \in BOOLEAN, yamlDetected \in BOOLEAN,
        p \in [ UnsetKeys(environ) -> 0..2 ] :
       /\ msgs' = Chrome(dotenvExists, yamlDetected)
       /\ environ' = load_dotenv(environ, [ k \in DOMAIN p |-> Pick(k, p[k]) ])
  /\ runs' = runs + 1
  /\ pc' = "started"
  /\ GOOGLE_ADS_CONFIG' = NoConfig
  /\ country' = ""
  /\ customer_id' = ""
  /\ client' = NoClient
  /\ loaded' = FALSE
  /\ probeResult' = "none"
  /\ response' = << >>
  /\ fetchFailure' = "none"
  /\ fetchStatus' = "none"
  /\ appended' = 0
  /\ rows' = << >>
  /\ view' = "none"
  /\ total_impressions' = 0
  /\ total_clicks' = 0
  /\ total_cost' = NoCost
  /\ table_data' = << >>
  /\ UNCHANGED << cache, clientCalls, constructed, verified, listVars >>

\* lines 53-60
LoadConfig ==
  /\ pc = "started"
  /\ LET r == BuildConfig(environ, 1, NoConfig) IN
       /\ msgs' = msgs \o r.out
       /\ GOOGLE_ADS_CONFIG' = r.config
       /\ pc' = IF r.stopped THEN "halted" ELSE "configured"
  /\ UNCHANGED << procVars, country, customer_id, client, loaded,
                  probeResult, fetchVars, renderVars, listVars >>

\* lines 142-143
SelectCountry ==
  /\ pc = "configured"
  /\ \E label \in Selections :
       /\ country' = label
       /\ customer_id' = COUNTRY_ACCOUNTS[label]
  /\ pc' = "selected"
  /\ UNCHANGED << procVars, msgs, GOOGLE_ADS_CONFIG, client, loaded,
                  probeResult, fetchVars, renderVars, listVars >>

\* line 146
GetClient ==
  /\ pc = "selected"
  /\ \E outcome \in { "ok", "Exception" } :
       LET r == get_google_ads_client(cache, outcome, constructed + 1) IN
         /\ cache' = r.entry
         /\ client' = r.value
         /\ loaded' = r.loaded
         /\ constructed' = IF r.built THEN constructed + 1 ELSE constructed
         /\ msgs' = msgs \o r.out
         /\ pc' = IF r.stopped THEN "halted" ELSE "client"
  /\ clientCalls' = clientCalls + 1
  /\ UNCHANGED << environ, runs, verified, GOOGLE_ADS_CONFIG, country,
                  customer_id, probeResult, fetchVars, renderVars, listVars >>

\* line 147: the returned bool is dropped
TestConnection ==
  /\ pc = "client"
  /\ \E io \in ProbeInputs :
       LET r == test_google_ads_connection(io) IN
         /\ probeResult' = r.result
         /\ verified' = (verified \/ r.ret)
         /\ msgs' = msgs \o r.out
         /\ pc' = IF r.stopped THEN "halted" ELSE "probed"
  /\ UNCHANGED << environ, cache, runs, clientCalls, constructed,
                  GOOGLE_ADS_CONFIG, country, customer_id, client, loaded,
                  fetchVars, renderVars, listVars >>

\* lines 149-150: an exception get_campaign_performance lets through ends the
\* run at that line
FetchPerformance ==
  /\ pc = "probed"
  /\ \E io \in ReadInputs(CampaignRows) :
       LET r == get_campaign_performance(io) IN
         /\ response' = io.response
         /\ fetchFailure' = r.failure
         /\ fetchStatus' = r.status
         /\ appended' = r.appended
         /\ rows' = r.result
         /\ msgs' = msgs \o r.out
         /\ pc' = IF r.status = "raised" THEN "crashed" ELSE "fetched"
  /\ UNCHANGED << procVars, GOOGLE_ADS_CONFIG, country, customer_id, client,
                  loaded, probeResult, renderVars, listVars >>

\* lines 152-173
Render ==
  /\ pc = "fetched"
  /\ view' = ChooseView(rows)
  /\ IF ChooseView(rows) = "no_data"
       THEN /\ msgs' = Append(msgs, Msg("info", "page", "No campaign data found"))
            /\ UNCHANGED << total_impressions, total_clicks, total_cost, table_data >>
       ELSE /\ total_impressions' = SumColumn(rows, "metrics.impressions")
            /\ total_clicks' = SumColumn(rows, "metrics.clicks")
            /\ total_cost' = TotalCost(rows)
            /\ table_data' = TableData(rows)
            /\ UNCHANGED msgs
  /\ pc' = "done"
  /\ UNCHANGED << procVars, GOOGLE_ADS_CONFIG, country, customer_id, client,
                  loaded, probeResult, fetchVars, listVars >>

Next ==
  \/ StartRun
  \/ LoadConfig
  \/ SelectCountry
  \/ GetClient
  \/ TestConnection
  \/ FetchPerformance
  \/ Render

Spec == Init /\ [][Next]_vars

(* ================= the two read operations called directly ================= *)

\* a constructed client in hand, no script run in progress; each operation is
\* called once, in either order
InitReads ==
  /\ environ = [ k \in KeySet |-> EnvValue(k) ]
  /\ cache = 1
  /\ runs = 0
  /\ clientCalls = 1
  /\ constructed = 1
  /\ verified = FALSE
  /\ pc = "reads"
  /\ msgs = << >>
  /\ GOOGLE_ADS_CONFIG = BuildConfig(environ, 1, NoConfig).config
  /\ country = "NL"
  /\ customer_id = COUNTRY_ACCOUNTS["NL"]
  /\ client = 1
  /\ loaded = TRUE
  /\ probeResult = "none"
  /\ response = << >>
  /\ fetchFailure = "none"
  /\ fetchStatus = "none"
  /\ appended = 0
  /\ rows = << >>
  /\ view = "none"
  /\ total_impressions = 0
  /\ total_clicks = 0
  /\ total_cost = NoCost
  /\ table_data = << >>
  /\ accResponse = << >>
  /\ listFailure = "none"
  /\ listStatus = "none"
  /\ accAppended = 0
  /\ accounts = << >>

\* get_campaign_performance(client, customer_id), lines 110-139
CallGetCampaignPerformance ==
  /\ pc = "reads"
  /\ fetchStatus = "none"
  /\ \E io \in ReadInputs(CampaignRows) :
       LET r == get_campaign_performance(io) IN
         /\ response' = io.response
         /\ fetchFailure' = r.failure
         /\ fetchStatus' = r.status
         /\ appended' = r.appended
         /\ rows' = r.result
         /\ msgs' = r.out
  /\ UNCHANGED << procVars, pc, GOOGLE_ADS_CONFIG, country, customer_id,
                  client, loaded, probeResult, renderVars, listVars >>

\* list_accounts_under_mcc(client, mcc_customer_id), lines 86-107
CallListAccounts ==
  /\ pc = "reads"
  /\ listStatus = "none"
  /\ \E io \in ReadInputs(AccountRows) :
       LET r == list_accounts_under_mcc(io) IN
         /\ accResponse' = io.response
         /\ listFailure' = r.failure
         /\ listStatus' = r.status
         /\ accAppended' = r.appended
         /\ accounts' = r.result
         /\ msgs' = r.out
  /\ UNCHANGED << procVars, pc, GOOGLE_ADS_CONFIG, country, customer_id,
                  client, loaded, probeResult, fetchVars, renderVars >>

NextReads ==
  \/ CallGetCampaignPerformance
  \/ CallListAccounts

SpecReads == InitReads /\ [][NextReads]_vars


(* ================= properties ================= *)

FieldSet == { CONFIG_FIELDS[i] : i \in 1..Len(CONFIG_FIELDS) } \cup { "use_proto_plus" }

MissingKeys == { i \in 1..Len(ENV_KEYS) : environ[ENV_KEYS[i]] \in { Absent, "" } }

FirstMissing == CHOOSE i \in MissingKeys : \A j \in MissingKeys : i <= j

ConfigComplete ==
  /\ DOMAIN GOOGLE_ADS_CONFIG = FieldSet
  /\ \A i \in 1..Len(ENV_KEYS) :
       /\ GOOGLE_ADS_CONFIG[CONFIG_FIELDS[i]] = environ[ENV_KEYS[i]]
       /\ GOOGLE_ADS_CONFIG[CONFIG_FIELDS[i]] \notin { Absent, "" }

SurfacedBy(by) == { i \in 1..Len(msgs) : msgs[i].by = by }

LastMsg == msgs[Len(msgs)]

\* the configuration has been read in the current run
ConfigRead == pc \notin { "idle", "started", "reads" }

\* C1: both read operations return the empty sequence, and never raise,
\* whichever of their steps (get_service, search, iteration) throws.
C1_ReadsNeverRaise ==
  /\ fetchStatus # "raised"
  /\ listStatus # "raised"
  /\ (fetchFailure # "none" => fetchStatus = "returned" /\ rows = << >>)
  /\ (listFailure # "none" => listStatus = "returned" /\ accounts = << >>)

\* C2 as claimed: at most one client is ever constructed and no call of
\* get_google_ads_client after the first one enters load_from_dict again; each
\* returns the cached handle.
C2_NoCallAfterFirstReconstructs ==
  /\ [](constructed <= 1)
  /\ [][ (clientCalls >= 1 /\ clientCalls' = clientCalls + 1)
           => (~loaded' /\ client' # NoClient /\ client' = cache) ]_vars

\* C2 amended: at most one client is ever constructed, every handle a run
\* holds is that one, and once a construction has succeeded every later call
\* returns the cached handle without entering load_from_dict; a failed
\* construction stores nothing.
C2_ClientMemoized ==
  /\ [](/\ constructed <= 1
        /\ (client # NoClient => client = cache /\ client = 1)
        /\ (cache = NoClient <=> constructed = 0))
  /\ [][ (cache # NoClient /\ clientCalls' = clientCalls + 1)
           => (~loaded' /\ client' = cache /\ cache' = cache
               /\ constructed' = constructed /\ pc' = "client") ]_vars

C2_Witness ==
  /\ clientCalls = 2
  /\ pc = "client"
  /\ ~loaded
  /\ client = 1
  /\ constructed = 1

\* C3: once the configuration has been read, a missing or empty variable has
\* halted the run with an error naming that key and no configuration exists;
\* otherwise every field holds the value of its environment variable.
C3_CredentialGate ==
  ConfigRead =>
    IF MissingKeys # {}
      THEN /\ pc = "halted"
           /\ GOOGLE_ADS_CONFIG = NoConfig
           /\ LastMsg = Msg("error", "get_env_var", ENV_KEYS[FirstMissing])
      ELSE /\ ConfigComplete
           /\ SurfacedBy("get_env_var") = {}

C3_Witness ==
  /\ pc = "halted"
  /\ environ["DEVELOPER_TOKEN"] = EnvValue("DEVELOPER_TOKEN")
  /\ environ["CLIENT_ID"] = EnvValue("CLIENT_ID")
  /\ environ["CLIENT_SECRET"] = ""
  /\ LastMsg.detail = "CLIENT_SECRET"

\* C4: the probe, the query and the rendering happen only in a run that
\* loaded all five credentials and holds a constructed client; a halted run
\* ends on an error message with no probe, query, totals or table.
C4_FatalStopsRun ==
  /\ (probeResult # "none" \/ fetchStatus # "none" \/ view # "none")
       => (ConfigComplete /\ client # NoClient /\ client = cache)
  /\ pc = "halted"
       => /\ LastMsg.level = "error"
          /\ LastMsg.by \in { "get_env_var", "get_google_ads_client" }
          /\ probeResult = "none"
          /\ fetchStatus = "none"
          /\ view = "none"
          /\ table_data = << >>

C4_Witness ==
  /\ pc = "halted"
  /\ loaded
  /\ client = NoClient
  /\ LastMsg.by = "get_google_ads_client"

ProbeMsgLevels == { msgs[i].level : i \in SurfacedBy("test_google_ads_connection") }

ProbeNeverHalts ==
  /\ (probeResult # "none" => pc \in { "probed", "fetched", "done", "crashed" })
  /\ (pc \in { "fetched", "done", "crashed" } => fetchStatus # "none")

\* C5 as claimed: the probe never halts the run, an empty result and a caught
\* exception are both surfaced as a warning, and the fetch follows.
C5_ProbeWarnsNeverGates ==
  /\ ProbeNeverHalts
  /\ (probeResult \in { "empty", "exception" } => ProbeMsgLevels = { "warning" })

\* C5 amended: the probe never halts the run; an empty result is surfaced as
\* a warning and a caught exception as an error message; the step that
\* follows the probe is the campaign-performance fetch.
C5_ProbeNeverGates ==
  /\ [](/\ ProbeNeverHalts
        /\ (probeResult = "success" => ProbeMsgLevels = { "success" })
        /\ (probeResult = "empty" => ProbeMsgLevels = { "warning" })
        /\ (probeResult = "exception" => ProbeMsgLevels = { "error" }))
  /\ [][ probeResult # "none" /\ pc = "probed"
           => fetchStatus' # "none" /\ probeResult' = probeResult ]_vars

C5_Witness ==
  /\ probeResult = "exception"
  /\ fetchStatus = "returned"
  /\ fetchFailure = "none"
  /\ rows # << >>

\* C6: every failure (missing credential, construction failure, failed or
\* empty probe, exception at any step of the read) has a message surfaced by
\* the component it occurred in.
C6_EveryFailureSurfaced ==
  /\ (ConfigRead /\ MissingKeys # {} => SurfacedBy("get_env_var") # {})
  /\ (pc = "halted" /\ MissingKeys = {} => SurfacedBy("get_google_ads_client") # {})
  /\ (probeResult \in { "empty", "exception" }
        => SurfacedBy("test_google_ads_connection") # {})
  /\ (fetchFailure # "none" => SurfacedBy("get_campaign_performance") # {})

\* a metric of a fetched row, null counted as zero
Metric(i, key) == IF rows[i][key] = None THEN 0 ELSE rows[i][key]

RECURSIVE ColumnSum(_, _)
ColumnSum(n, key) == IF n = 0 THEN 0 ELSE ColumnSum(n - 1, key) + Metric(n, key)

\* C7: for a non-empty fetch the totals are the column sums with null
\* counted as zero, and total_cost is the cost sum divided by 1,000,000.
C7_TotalsAreColumnSums ==
  view = "totals_table" =>
    /\ total_impressions = ColumnSum(Len(rows), "metrics.impressions")
    /\ total_clicks = ColumnSum(Len(rows), "metrics.clicks")
    /\ total_cost[1] = ColumnSum(Len(rows), "metrics.cost_micros") \div 1000000
    /\ total_cost[2] = ColumnSum(Len(rows), "metrics.cost_micros") % 1000000
    /\ (rows = << PerformanceDict(ApiRow(3, "Shopping", None, 5, 2000000)) >>
          => /\ total_impressions = 0
             /\ total_clicks = 5
             /\ total_cost = << 2, 0 >>)

C7_Witness ==
  /\ view = "totals_table"
  /\ Len(rows) = 2
  /\ rows[1]["metrics.cost_micros"] = 5000000
  /\ rows[2]["metrics.cost_micros"] = 1000000
  /\ total_impressions = 150
  /\ total_clicks = 15
  /\ total_cost = << 6, 0 >>

\* C8: a returned fetch is always rendered; an empty result, failed or not,
\* takes the "no data" path (info message, no totals, no table) and a
\* non-empty one the totals-and-table path.
C8_ViewFollowsRows ==
  /\ (fetchStatus = "returned" => pc \in { "fetched", "done" })
  /\ pc = "done" =>
       IF rows = << >>
         THEN /\ view = "no_data"
              /\ LastMsg = Msg("info", "page", "No campaign data found")
              /\ table_data = << >>
              /\ total_cost = NoCost
         ELSE /\ view = "totals_table"
              /\ Len(table_data) = Len(rows)
              /\ \A i \in 1..Len(msgs) : msgs[i].level # "info"

C8_Witness ==
  /\ pc = "done"
  /\ fetchFailure = "iterate"
  /\ appended > 0
  /\ view = "no_data"

\* C9: once a probe has succeeded in this process, no later run issues the
\* probe again.
C9_ProbeOnlyWhileUnverified ==
  [][ verified => ~(probeResult = "none" /\ probeResult' # "none") ]_vars

\* C10: a read returns either the whole response, row for row and in order,
\* or the empty sequence; rows appended before an exception are dropped.
C10_NoPartialResult ==
  /\ fetchStatus = "returned" =>
       IF fetchFailure = "none"
         THEN rows = [ i \in 1..Len(response) |-> PerformanceDict(response[i]) ]
         ELSE rows = << >>
  /\ listStatus = "returned" =>
       IF listFailure = "none"
         THEN accounts = [ i \in 1..Len(accResponse) |-> AccountDict(accResponse[i]) ]
         ELSE accounts = << >>

C10_Witness ==
  /\ fetchFailure = "iterate"
  /\ appended = 2
  /\ rows = << >>
  /\ listFailure = "iterate"
  /\ accAppended = 1
  /\ accounts = << >>

====
